---- MODULE Spec2Model ----
(***************************************************************************)
(* Model of cavy's TestRunner (src/TestRunner.js).                         *)
(*                                                                         *)
(* One TestRunner object is constructed and run() is called on it once.    *)
(* Every `await` of the source is a suspension point of the model: an      *)
(* action runs the code from the settling of one awaited operation up to   *)
(* the next await.  The host component, the setup hooks, the test bodies   *)
(* and the network are the environment: each awaited operation settles     *)
(* with an outcome chosen nondeterministically.                            *)
(*                                                                         *)
(* Text (descriptions, messages, HTTP bodies, JSON) is a sequence of       *)
(* chunks; the chunks LF, QUOTE and BSLASH are the single characters that  *)
(* JSON escapes.                                                           *)
(***************************************************************************)
EXTENDS Integers, Sequences, FiniteSets, TLC

(* ------------------------------ bounds --------------------------------- *)

\* The test plan has at most MaxSuites scopes ...
MaxSuites == 2

\* ... of at most MaxCases test cases each ...
MaxCases == 2

\* ... and at most MaxTests test cases in all.
MaxTests == 2

(* ------------------------------- text ---------------------------------- *)

LF == "\n"
QUOTE == "\""
BSLASH == "\\"

Digits == <<"0", "1", "2", "3", "4", "5", "6", "7", "8", "9">>

Digit(d) == Digits[d + 1]

RECURSIVE NatToText(_)
\* The decimal digits of a natural number (Number to string).
NatToText(n) ==
    IF n < 10 THEN <<Digit(n)>> ELSE NatToText(n \div 10) \o <<Digit(n % 10)>>

\* JavaScript values the model distinguishes by type.
Undefined == [type |-> "undefined"]
Null == [type |-> "null"]
Bool(b) == [type |-> "boolean", value |-> b]
Num(n) == [type |-> "number", value |-> n]
Error(m) == [type |-> "Error", message |-> m]

\* Every number given counts as a delay, 0 too.
Truthy_AnyNumber(v) ==
    CASE v.type = "undefined" -> FALSE
      [] v.type = "null" -> FALSE
      [] v.type = "boolean" -> v.value
      [] OTHER -> TRUE

\* ToBoolean of a value of the kinds above (the test of `if (x)` and `!x`).
Truthy(v) ==
    CASE v.type = "undefined" -> FALSE
      [] v.type = "null" -> FALSE
      [] v.type = "boolean" -> v.value
      [] v.type = "number" -> v.value # 0
      [] OTHER -> TRUE

(* --------------------------- the test plan ----------------------------- *)

\* The description of the j-th case of the i-th scope: distinct per case, and
\* with characters that JSON has to escape.
DescriptionOf(i, j) == <<"suite">> \o NatToText(i) \o <<" ", QUOTE, "case">>
                         \o NatToText(j) \o <<QUOTE>>

\* A scope with n cases; hook tells whether it defines beforeEach.
MkScope(i, hook, n) ==
    [beforeEach |-> hook,
     testCases |-> [j \in 1..n |-> [description |-> DescriptionOf(i, j)]]]

RECURSIVE Sum(_)
Sum(sizes) == IF sizes = <<>> THEN 0 ELSE Head(sizes) + Sum(Tail(sizes))

\* The test plans of the model: every sequence of at most MaxSuites scopes
\* within the bounds.
TestPlans ==
    UNION {
      { [i \in 1..len |-> MkScope(i, hooks[i], sizes[i])] :
          hooks \in [1..len -> BOOLEAN],
          sizes \in {z \in [1..len -> 0..MaxCases] : Sum(z) <= MaxTests} } :
      len \in 0..MaxSuites }

\* Values of the startDelay constructor argument: unset, 0 and a delay in ms.
StartDelays == {Undefined, Num(0), Num(500)}

\* Values of the sendReport constructor argument.
SendReports == {Undefined, Bool(TRUE), Bool(FALSE)}

\* Outcomes chosen by the clock: milliseconds between the two `new Date()`.
Elapsed == {0, 1050}

\* Values a test body may throw or reject with: an Error with a message, and
\* null (as does `throw null`; `Promise.reject()` rejects with undefined, which
\* behaves the same in the catch block).
Thrown == {Error(<<"expected ", BSLASH, "d">>), Null}

\* Failure messages of a failed fetch.
NetworkRequestFailed == "Network request failed"
FetchErrors == {Error(<<"TypeError: ", NetworkRequestFailed>>),
                Error(<<"Request aborted">>)}

\* Bodies the probed address may answer with.
Ack == <<"cavy-cli running">>
ProbeBodies == {Ack, <<"cavy-cli running", LF>>, <<>>}

ProbeUrl == <<"http://127.0.0.1:8082/">>
ReportUrl == <<"http://127.0.0.1:8082/report">>

(* ------------------------------- state --------------------------------- *)

VARIABLES
    testSuites,        \* this.testSuites
    startDelay,        \* this.startDelay
    shouldSendReport,  \* this.shouldSendReport
    testResults,       \* this.testResults
    errorCount,        \* this.errorCount
    runPc,             \* run(): "idle", "paused" (in pause), "resolved"
                       \* ("calling": waiting in line 28, which run() never
                       \* does)
    pc,                \* runTestSuites(): "notStarted", "loop" (awaiting
                       \* runTest), "probe", "text", "send" (awaiting inside
                       \* reportResults/send), "done", "rejected"
    pos,               \* the loop counters <<i, j>> of runTestSuites, 1-based
    casePc,            \* runTest() of each case: "pending", "clearing",
                       \* "settingUp", "executing", "passed", "failed",
                       \* "rejected"
    rejectedBy,        \* the operation whose failure rejected runTest, or "none"
    rendering,         \* the case whose reRender() returned a promise that has
                       \* not settled yet, as a set; the promise of an
                       \* earlier case is taken to have settled by the next
                       \* call of reRender()
    report,            \* the report object of runTestSuites, Undefined before
    requests,          \* the fetch calls made so far, in order
    responses,         \* how the awaited network operations settled, in order
    console,           \* the console output so far, in order
    calls              \* the host, hook and body calls made so far, in order

vars == <<testSuites, startDelay, shouldSendReport, testResults, errorCount,
          runPc, pc, pos, casePc, rejectedBy, rendering, report, requests,
          responses, console, calls>>

\* The (suite, case) index pairs of a plan.
PlanCases(suites) ==
    UNION {{<<i, j>> : j \in 1..Len(suites[i].testCases)} : i \in 1..Len(suites)}

\* The (suite, case) index pairs of the plan: casePc has an entry for each.
Cases == DOMAIN casePc

Call(op, c) == [op |-> op, case |-> c]

Log(level, msg) == [level |-> level, msg |-> msg]

\* An awaited network operation settles: it fails with error e, or it is
\* fulfilled (text is the body read by response.text()).
Failed(op, e) == [op |-> op, ok |-> FALSE, text |-> e.message]

Fulfilled(op, text) == [op |-> op, ok |-> TRUE, text |-> text]

(* ------------------------- runTest, lines 81-102 ----------------------- *)

PassMark == "(U+2705)"
FailMark == "(U+274C)"

\* Reading e.message in a catch block throws a TypeError when e is null or
\* undefined.
MessageReadable(e) == e.type \notin {"null", "undefined"}

\* `${e.message}`
MessageOf(e) == IF e.type = "Error" THEN e.message ELSE <<"undefined">>

SuccessMsg(description) == description \o <<"  ", PassMark>>

ErrorMsg(description, e) ==
    description \o <<"  ", FailMark, LF, "   ">> \o MessageOf(e)

\* A passed case is logged and not recorded.
PushPassed_NotRecorded(results, description) == results

PushPassed(results, description) ==
    Append(results, [message |-> SuccessMsg(description), passed |-> TRUE])

\* The failed result is put in front of the list.
PushFailed_Unshift(results, description, e) ==
    <<[message |-> ErrorMsg(description, e), passed |-> FALSE]>> \o results

PushFailed(results, description, e) ==
    Append(results, [message |-> ErrorMsg(description, e), passed |-> FALSE])

\* The count is left as it is.
IncreaseErrorCount_Forgotten(count) == count

IncreaseErrorCount(count) == count + 1

Scope(c) == testSuites[c[1]]

Test(c) == Scope(c).testCases[c[2]]

\* runTest rejects: the failure of op was not caught.
Reject(c, op) ==
    /\ casePc' = [casePc EXCEPT ![c] = "rejected"]
    /\ rejectedBy' = op

\* The body is called before reRender().
ReRenderAndCallBody_BodyFirst(c, called) ==
    /\ casePc' = [casePc EXCEPT ![c] = "executing"]
    /\ calls' = called \o <<Call("f", c), Call("reRender", c)>>
    /\ rendering' = {}
    /\ UNCHANGED rejectedBy

\* Lines 84-89: reRender() is called and not awaited, then the body is called.
\* reRender returns ("sync"), returns a promise ("async") or throws.
ReRenderAndCallBody(c, called) ==
    \E r \in {"sync", "async", "throws"} :
        IF r = "throws"
        THEN /\ Reject(c, "reRender")
             /\ calls' = called \o <<Call("reRender", c)>>
             /\ rendering' = {}
        ELSE /\ casePc' = [casePc EXCEPT ![c] = "executing"]
             /\ calls' = called \o <<Call("reRender", c), Call("f", c)>>
             /\ rendering' = IF r = "async" THEN {c} ELSE {}
             /\ UNCHANGED rejectedBy

\* Line 82 settles; line 83 calls the hook when the scope defines one.
ClearAsyncSettles(c) ==
    /\ casePc[c] = "clearing"
    /\ \E ok \in BOOLEAN :
         IF ~ok
         THEN Reject(c, "clearAsync") /\ UNCHANGED <<calls, rendering>>
         ELSE IF Scope(c).beforeEach
         THEN /\ casePc' = [casePc EXCEPT ![c] = "settingUp"]
              /\ calls' = Append(calls, Call("beforeEach", c))
              /\ UNCHANGED <<rejectedBy, rendering>>
         ELSE ReRenderAndCallBody(c, calls)
    /\ UNCHANGED <<responses, testSuites, startDelay, shouldSendReport, testResults,
                   errorCount, runPc, pc, pos, report, requests, console>>

\* Line 83 settles.
BeforeEachSettles(c) ==
    /\ casePc[c] = "settingUp"
    /\ \E ok \in BOOLEAN :
         IF ~ok
         THEN Reject(c, "beforeEach") /\ UNCHANGED <<calls, rendering>>
         ELSE ReRenderAndCallBody(c, calls)
    /\ UNCHANGED <<responses, testSuites, startDelay, shouldSendReport, testResults,
                   errorCount, runPc, pc, pos, report, requests, console>>

\* Line 89 settles with the body completing: lines 90-93.
BodyCompletes(c) ==
    /\ casePc[c] = "executing"
    /\ console' = Append(console, Log("log", SuccessMsg(Test(c).description)))
    /\ testResults' = PushPassed(testResults, Test(c).description)
    /\ casePc' = [casePc EXCEPT ![c] = "passed"]
    /\ UNCHANGED <<responses, testSuites, startDelay, shouldSendReport, errorCount, runPc,
                   pc, pos, rejectedBy, rendering, report, requests, calls>>

\* Line 89 settles with the body throwing or rejecting with e: lines 94-101.
BodyFails(c) ==
    /\ casePc[c] = "executing"
    /\ \E e \in Thrown :
         IF MessageReadable(e)
         THEN /\ console' = Append(console,
                                   Log("warn", ErrorMsg(Test(c).description, e)))
              /\ testResults' = PushFailed(testResults, Test(c).description, e)
              /\ errorCount' = IncreaseErrorCount(errorCount)
              /\ casePc' = [casePc EXCEPT ![c] = "failed"]
              /\ UNCHANGED rejectedBy
         ELSE /\ Reject(c, "f")
              /\ UNCHANGED <<console, testResults, errorCount>>
    /\ UNCHANGED <<responses, testSuites, startDelay, shouldSendReport, runPc, pc, pos,
                   rendering, report, requests, calls>>

\* A promise returned by reRender() settles; nothing waits for it.
ReRenderSettles(c) ==
    /\ c \in rendering
    /\ rendering' = rendering \ {c}
    /\ UNCHANGED <<responses, testSuites, startDelay, shouldSendReport, testResults,
                   errorCount, runPc, pc, pos, casePc, rejectedBy, report,
                   requests, console, calls>>

(* ------------------- JSON.stringify(report), line 128 ------------------ *)

\* A JSON string character: the quote, the backslash and the line feed are
\* escaped, every other chunk is copied.
EscapeChar(ch) ==
    CASE ch = QUOTE -> <<BSLASH, QUOTE>>
      [] ch = BSLASH -> <<BSLASH, BSLASH>>
      [] ch = LF -> <<BSLASH, "n">>
      [] OTHER -> <<ch>>

RECURSIVE EscapeText(_)
EscapeText(text) ==
    IF text = <<>> THEN <<>>
    ELSE EscapeChar(Head(text)) \o EscapeText(Tail(text))

StringToJson(text) == <<QUOTE>> \o EscapeText(text) \o <<QUOTE>>

Key(name) == <<QUOTE, name, QUOTE, ":">>

RECURSIVE StripZeros(_)
StripZeros(digits) ==
    IF digits # <<>> /\ digits[Len(digits)] = "0"
    THEN StripZeros(SubSeq(digits, 1, Len(digits) - 1))
    ELSE digits

\* Number to string of d.num / 1000: the integer part, and the fraction's
\* digits without trailing zeros when there is a fraction.
NumberToJson(d) ==
    LET whole == d.num \div 1000
        frac == d.num % 1000
    IN  NatToText(whole) \o
        (IF frac = 0 THEN <<>>
         ELSE <<".">> \o StripZeros(<<Digit(frac \div 100),
                                      Digit((frac \div 10) % 10),
                                      Digit(frac % 10)>>))

ResultToJson(r) ==
    <<"{">> \o Key("message") \o StringToJson(r.message) \o <<",">>
            \o Key("passed") \o <<IF r.passed THEN "true" ELSE "false">>
            \o <<"}">>

RECURSIVE ResultsToJson(_)
ResultsToJson(results) ==
    IF results = <<>> THEN <<>>
    ELSE ResultToJson(Head(results)) \o
         (IF Len(results) > 1 THEN <<",">> ELSE <<>>) \o
         ResultsToJson(Tail(results))

Stringify(rep) ==
    <<"{">> \o Key("results") \o <<"[">> \o ResultsToJson(rep.results)
            \o <<"]", ",">>
            \o Key("errorCount") \o NatToText(rep.errorCount) \o <<",">>
            \o Key("duration") \o NumberToJson(rep.duration) \o <<"}">>

(* --------- JSON.parse, the collector's reading of the POST body -------- *)

IsDigit(ch) == \E d \in 0..9 : Digits[d + 1] = ch

DigitValue(ch) == CHOOSE d \in 0..9 : Digits[d + 1] = ch

At(t, k) == IF k \in 1..Len(t) THEN t[k] ELSE "(end)"

RECURSIVE ReadNat(_, _, _)
ReadNat(t, k, acc) ==
    IF IsDigit(At(t, k)) THEN ReadNat(t, k + 1, acc * 10 + DigitValue(t[k]))
    ELSE [val |-> acc, next |-> k]

RECURSIVE Pow10(_)
Pow10(n) == IF n = 0 THEN 1 ELSE 10 * Pow10(n - 1)

\* A JSON number, as the fraction num / den.
ReadNumber(t, k) ==
    LET whole == ReadNat(t, k, 0)
    IN  IF At(t, whole.next) = "."
        THEN LET frac == ReadNat(t, whole.next + 1, 0)
                 den == Pow10(frac.next - (whole.next + 1))
             IN  [val |-> [num |-> whole.val * den + frac.val, den |-> den],
                  next |-> frac.next]
        ELSE [val |-> [num |-> whole.val, den |-> 1], next |-> whole.next]

UnescapeChar(ch) == IF ch = "n" THEN LF ELSE ch

RECURSIVE ReadChars(_, _, _)
\* The characters of a JSON string up to its closing quote; k is past the
\* opening quote.
ReadChars(t, k, acc) ==
    IF k > Len(t) \/ t[k] = QUOTE THEN [val |-> acc, next |-> k + 1]
    ELSE IF t[k] = BSLASH
    THEN ReadChars(t, k + 2, Append(acc, UnescapeChar(At(t, k + 1))))
    ELSE ReadChars(t, k + 1, Append(acc, t[k]))

HasKey(t, k, name) == SubSeq(t, k, k + 3) = Key(name)

\* One {"message": ..., "passed": ...} object starting at k.
ReadResult(t, k) ==
    LET message == ReadChars(t, k + 6, <<>>)
        m == message.next
    IN  [ok |-> /\ At(t, k) = "{" /\ HasKey(t, k + 1, "message")
                /\ At(t, k + 5) = QUOTE /\ At(t, m) = ","
                /\ HasKey(t, m + 1, "passed")
                /\ At(t, m + 5) \in {"true", "false"} /\ At(t, m + 6) = "}",
         val |-> [message |-> message.val, passed |-> At(t, m + 5) = "true"],
         next |-> m + 7]

RECURSIVE ReadResults(_, _, _)
\* The elements of the results array; k is past the opening bracket.
ReadResults(t, k, acc) ==
    IF k > Len(t) THEN [ok |-> FALSE, val |-> acc, next |-> k]
    ELSE IF t[k] = "]" THEN [ok |-> TRUE, val |-> acc, next |-> k + 1]
    ELSE LET r == ReadResult(t, IF t[k] = "," THEN k + 1 ELSE k)
         IN  IF r.ok THEN ReadResults(t, r.next, Append(acc, r.val))
             ELSE [ok |-> FALSE, val |-> acc, next |-> k]

\* The report a POST body deserializes to, Undefined for a body that is not
\* the JSON text of a report.
Parse(t) ==
    LET results == ReadResults(t, 7, <<>>)
        e == results.next
        count == ReadNat(t, e + 5, 0)
        c == count.next
        duration == ReadNumber(t, c + 5)
        d == duration.next
    IN  IF /\ At(t, 1) = "{" /\ HasKey(t, 2, "results") /\ At(t, 6) = "["
           /\ results.ok
           /\ At(t, e) = "," /\ HasKey(t, e + 1, "errorCount") /\ c > e + 5
           /\ At(t, c) = "," /\ HasKey(t, c + 1, "duration") /\ d > c + 5
           /\ At(t, d) = "}" /\ d = Len(t)
        THEN [results |-> results.val, errorCount |-> count.val,
              duration |-> duration.val]
        ELSE Undefined

\* Equality of two numbers given as fractions.
SameNumber(a, b) == a.num * b.den = b.num * a.den

(* ---------------------- runTestSuites, lines 33-70 --------------------- *)

RECURSIVE Seek(_, _)
\* The loop tests of lines 38 and 40: the first position at or after <<i, j>>
\* that holds a test case, and a position past the last suite when there is
\* none.
Seek(i, j) ==
    IF i > Len(testSuites) THEN <<i, j>>
    ELSE IF j <= Len(testSuites[i].testCases) THEN <<i, j>>
    ELSE Seek(i + 1, 1)

LoopExited(p) == p[1] > Len(testSuites)

\* `await this.runTest(...)`, line 43: the loop resumes when the promise of
\* runTest has settled.
\* The promise of runTest is not awaited.
AwaitRunTest_NotAwaited(state) == TRUE

AwaitRunTest(state) == state \in {"passed", "failed", "rejected"}

\* The rejection of runTest is swallowed.
AwaitThrows_Swallowed(state) == FALSE

\* The await of line 43 throws when the promise of runTest is rejected;
\* nothing catches it in runTestSuites.
AwaitThrows(state) == state = "rejected"

\* (stop - start) / 1000, as the fraction num / den.
Duration(ms) == [num |-> ms, den |-> 1000]

\* Lines 52-56.
\* The report counts the results instead of the errors.
BuildReport_CountsResults(results, count, duration) ==
    [results |-> results, errorCount |-> Len(results), duration |-> duration]

BuildReport(results, count, duration) ==
    [results |-> results, errorCount |-> count, duration |-> duration]

\* `this.shouldSendReport != undefined`, line 58.
Explicit(v) == v.type \notin {"undefined", "null"}

\* Lines 58-66: the early return.
\* The early return is taken when sendReport is true.
SkipReporting_Inverted(v) == Explicit(v) /\ Truthy(v)

SkipReporting(v) == Explicit(v) /\ ~Truthy(v)

Get(url) == [method |-> "GET", url |-> url, body |-> <<>>]

Post(url, body) == [method |-> "POST", url |-> url, body |-> body]

DeprecationWarning == <<"Deprecation warning: using the sendReport prop is deprecated.">>

\* The loop goes on at position p: it calls runTest for the case at p (up to
\* its first await, line 82), or it has run out of cases and lines 47-69 run
\* up to the first await of reportResults (line 109).
AdvanceLoop(p, con) ==
    /\ pos' = p
    /\ IF ~LoopExited(p)
       THEN /\ pc' = "loop"
            /\ casePc' = [casePc EXCEPT ![p] = "clearing"]
            /\ calls' = Append(calls, Call("clearAsync", p))
            /\ console' = con
            /\ UNCHANGED <<report, requests>>
       ELSE /\ \E ms \in Elapsed :
                 report' = BuildReport(testResults, errorCount, Duration(ms))
            /\ console' = con \o <<Log("log", <<"Cavy test suite stopped">>)>>
                              \o (IF Explicit(shouldSendReport)
                                  THEN <<Log("warn", DeprecationWarning)>>
                                  ELSE <<>>)
            /\ IF SkipReporting(shouldSendReport)
               THEN pc' = "done" /\ UNCHANGED requests
               ELSE pc' = "probe" /\ requests' = Append(requests, Get(ProbeUrl))
            /\ UNCHANGED <<casePc, calls>>

\* runTestSuites is called: lines 34-35 and the loop's first iteration.
RunTestSuites ==
    AdvanceLoop(Seek(1, 1),
                Append(console, Log("log", <<"Cavy test suite started">>)))

\* run() waits for the promise of runTestSuites.
RunReturns_Awaited(suitePc) == suitePc \in {"done", "rejected"}

\* `this.runTestSuites();`, line 28: the promise of runTestSuites is not
\* awaited, so run() returns whatever runTestSuites has come to.
RunReturns(suitePc) == TRUE

\* The promise of run() after the call of line 28.
AfterCall(suitePc) == IF RunReturns(suitePc) THEN "resolved" ELSE "calling"

\* run() is called, lines 26-29.
Run ==
    /\ runPc = "idle"
    /\ IF Truthy(startDelay)
       THEN /\ runPc' = "paused"
            /\ UNCHANGED <<pc, pos, casePc, report, requests, console, calls>>
       ELSE /\ RunTestSuites
            /\ runPc' = AfterCall(pc')
    /\ UNCHANGED <<responses, testSuites, startDelay, shouldSendReport, testResults,
                   errorCount, rejectedBy, rendering>>

\* The timer of pause() fires, lines 154-162, and run() goes on at line 28.
PauseElapses ==
    /\ runPc = "paused"
    /\ RunTestSuites
    /\ runPc' = AfterCall(pc')
    /\ UNCHANGED <<responses, testSuites, startDelay, shouldSendReport, testResults,
                   errorCount, rejectedBy, rendering>>

\* The promise of runTest has settled and the loop of runTestSuites resumes:
\* a rejection is thrown out of runTestSuites, otherwise the loop goes on.
LoopResumes ==
    /\ pc = "loop"
    /\ AwaitRunTest(casePc[pos])
    /\ IF AwaitThrows(casePc[pos])
       THEN /\ pc' = "rejected"
            /\ UNCHANGED <<pos, casePc, report, requests, console, calls>>
       ELSE AdvanceLoop(Seek(pos[1], pos[2] + 1), console)
    /\ UNCHANGED <<responses, testSuites, startDelay, shouldSendReport, testResults,
                   errorCount, runPc, rejectedBy, rendering>>

(* ------------- reportResults, send, handleError, lines 105-150 --------- *)

\* The text is tested for beginning with the acknowledgement.
IsAck_StartsWith(text) == text # <<>> /\ text[1] = Ack[1]

\* Every text is taken for the acknowledgement.
IsAck_AnyText(text) == TRUE

\* `text == 'cavy-cli running'`, line 112.
IsAck(text) == text = Ack

\* The message is compared with the pattern's text.
MatchesNetworkRequestFailed_Equals(message) ==
    message = <<NetworkRequestFailed>>

\* `error.message.match(/Network request failed/)`, line 141.
MatchesNetworkRequestFailed(message) ==
    \E k \in 1..Len(message) : message[k] = NetworkRequestFailed

\* The catch block of reportResults, line 118.
SkipSending(e) ==
    /\ console' = Append(console,
           Log("log", <<"Skipping sending test report to cavy-cli - ">>
                      \o e.message \o <<".">>))
    /\ pc' = "done"
    /\ UNCHANGED requests

\* handleError(error, url), lines 140-150.
HandleError(error, url) ==
    IF MatchesNetworkRequestFailed(error.message)
    THEN <<Log("group", <<"Cavy test report server is not running at ">> \o url),
           Log("log", <<"If you are using cavy-cli, maybe it is not set up correctly or not reachable from this device?">>),
           Log("groupEnd", <<>>)>>
    ELSE <<Log("group", <<"Error sending test results">>),
           Log("warn", error.message),
           Log("groupEnd", <<>>)>>

\* The probe `fetch(url)` of line 109 settles.
ProbeSettles ==
    /\ pc = "probe"
    /\ \/ \E e \in FetchErrors :
            /\ responses' = Append(responses, Failed("GET", e))
            /\ SkipSending(e)
       \/ /\ responses' = Append(responses, Fulfilled("GET", <<>>))
          /\ pc' = "text"
          /\ UNCHANGED <<requests, console>>
    /\ UNCHANGED <<testSuites, startDelay, shouldSendReport, testResults,
                   errorCount, runPc, pos, casePc, rejectedBy, rendering,
                   report, calls>>

\* `response.text()` of line 110 settles; on the acknowledgement send() runs
\* up to its fetch, line 133.
TextSettles ==
    /\ pc = "text"
    /\ \/ \E e \in {Error(<<"Failed to read the response body">>)} :
            /\ responses' = Append(responses, Failed("text", e))
            /\ SkipSending(e)
       \/ \E text \in ProbeBodies :
            /\ responses' = Append(responses, Fulfilled("text", text))
            /\ IF IsAck(text)
               THEN /\ requests' = Append(requests,
                                          Post(ReportUrl, Stringify(report)))
                    /\ pc' = "send"
                    /\ UNCHANGED console
               ELSE SkipSending(Error(<<"Unexpected response">>))
    /\ UNCHANGED <<testSuites, startDelay, shouldSendReport, testResults,
                   errorCount, runPc, pos, casePc, rejectedBy, rendering,
                   report, calls>>

\* The POST `fetch(url, options)` of line 133 settles.
SendSettles ==
    /\ pc = "send"
    /\ \/ /\ responses' = Append(responses, Fulfilled("POST", <<>>))
          /\ console' = Append(console,
                Log("log", <<"Cavy test report successfully sent to cavy-cli">>))
       \/ \E e \in FetchErrors :
            /\ responses' = Append(responses, Failed("POST", e))
            /\ console' = console \o HandleError(e, ReportUrl)
    /\ pc' = "done"
    /\ UNCHANGED <<testSuites, startDelay, shouldSendReport, testResults,
                   errorCount, runPc, pos, casePc, rejectedBy, rendering,
                   report, requests, calls>>

(* --------------------------- specification ----------------------------- *)

\* The state after `new TestRunner(component, testSuites, startDelay,
\* sendReport)`, lines 14-23.
Init ==
    /\ testSuites \in TestPlans
    /\ startDelay \in StartDelays
    /\ shouldSendReport \in SendReports
    /\ testResults = <<>>
    /\ errorCount = 0
    /\ runPc = "idle"
    /\ pc = "notStarted"
    /\ pos = <<0, 0>>
    /\ casePc = [c \in PlanCases(testSuites) |-> "pending"]
    /\ rejectedBy = "none"
    /\ rendering = {}
    /\ report = Undefined
    /\ requests = <<>>
    /\ responses = <<>>
    /\ console = <<>>
    /\ calls = <<>>

Next ==
    \/ Run
    \/ PauseElapses
    \/ LoopResumes
    \/ \E c \in Cases : ClearAsyncSettles(c)
    \/ \E c \in Cases : BeforeEachSettles(c)
    \/ \E c \in Cases : BodyCompletes(c)
    \/ \E c \in Cases : BodyFails(c)
    \/ \E c \in Cases : ReRenderSettles(c)
    \/ ProbeSettles
    \/ TextSettles
    \/ SendSettles

Spec == Init /\ [][Next]_vars

\* The runs in which run() is called, the timer fires, every awaited
\* operation settles and every continuation is run: a step is taken as long
\* as one is possible.
FairSpec == Spec /\ WF_vars(Next)

(* --------------------- vocabulary of the properties -------------------- *)

\* The number of entries of a results list whose passed field is false.
Failures(results) ==
    Cardinality({k \in 1..Len(results) : ~results[k].passed})

\* Input order of the (suite, case) pairs: suite by suite, case by case.
Before(d, c) == d[1] < c[1] \/ (d[1] = c[1] /\ d[2] < c[2])

\* The place of case c in the flattened plan.
FlatIndex(c) == Cardinality({d \in Cases : Before(d, c)}) + 1

TotalCases == Cardinality(Cases)

\* The flattened plan: its k-th entry is the k-th (suite, case) pair.
FlatCases == [k \in 1..TotalCases |-> CHOOSE c \in Cases : FlatIndex(c) = k]

\* How many times op was called for case c.
CallCount(op, c) ==
    Cardinality({n \in 1..Len(calls) : calls[n] = Call(op, c)})

ReportBuilt == report # Undefined

\* A result is the result of case c: its message begins with c's description
\* followed by the two blanks and a mark.
IsResultOf(r, c) ==
    LET d == Test(c).description
    IN  /\ Len(r.message) >= Len(d) + 2
        /\ SubSeq(r.message, 1, Len(d)) = d
        /\ r.message[Len(d) + 1] = "  "
        /\ r.message[Len(d) + 2] = (IF r.passed THEN PassMark ELSE FailMark)

Posts == {n \in 1..Len(requests) : requests[n].method = "POST"}

\* The probe was answered, and the body read was the acknowledgement.
ProbeAcknowledged ==
    \E n \in 1..Len(responses) :
        responses[n].op = "text" /\ responses[n].ok /\ responses[n].text = Ack

\* The probe failed at the network level, or its body could not be read, or
\* the body read was not the acknowledgement.
ProbeNotAcknowledged ==
    \E n \in 1..Len(responses) :
        \/ responses[n].op \in {"GET", "text"} /\ ~responses[n].ok
        \/ responses[n].op = "text" /\ responses[n].ok /\ responses[n].text # Ack

(* ------------------------------ properties ----------------------------- *)

\* C1: in every state errorCount equals the number of entries of the results
\* list whose passed field is false, and so does the errorCount of the report
\* for the results of the report.
C1_ErrorCountMatchesFailures ==
    /\ errorCount = Failures(testResults)
    /\ ReportBuilt => report.errorCount = Failures(report.results)

\* C1 witness: a report with a failed result and a passed one.
C1_Witness ==
    /\ ReportBuilt
    /\ report.errorCount = 1
    /\ Len(report.results) = 2
    /\ errorCount = 1

\* C2: the results list of every report built has as many entries as the plan
\* has test cases over all its scopes.
C2_ReportHasOneResultPerCase ==
    ReportBuilt => Len(report.results) = Sum([i \in 1..Len(testSuites) |->
                                                Len(testSuites[i].testCases)])

\* C2 witness: a report over two scopes with passed and failed cases.
C2_Witness ==
    /\ ReportBuilt
    /\ Len(testSuites) = 2
    /\ Len(report.results) = 2
    /\ ~report.results[1].passed
    /\ report.results[2].passed

\* The operations of runTest outside its try block.
HostOps == {"clearAsync", "beforeEach", "reRender"}

RunEnded == pc \in {"done", "rejected"}

\* C3: a failing test body never aborts the run: when the run has ended and
\* nothing but test bodies has failed, the body of every case of every scope
\* has been executed exactly once.
C3_FailingBodyNeverAborts ==
    (RunEnded /\ rejectedBy \notin HostOps) =>
        \A c \in Cases : CallCount("f", c) = 1

\* The setup hook of case c was called and has failed: the case has left the
\* hook and reRender was not called for it.
HookFailed(c) ==
    /\ CallCount("beforeEach", c) = 1
    /\ casePc[c] # "settingUp"
    /\ CallCount("reRender", c) = 0

\* C4: a failure of the setup hook for a case is handled like a failure of the
\* case's body: a result with passed = false is recorded for the case, it is
\* counted in errorCount, and the run is not aborted.
C4_HookFailureIsCaseFailure ==
    \A c \in Cases :
        HookFailed(c) =>
            /\ casePc[c] = "failed"
            /\ \E k \in 1..Len(testResults) :
                  IsResultOf(testResults[k], c) /\ ~testResults[k].passed
            /\ errorCount >= 1
            /\ pc # "rejected"

\* C5: the results list is in flattened input order at every point of a run:
\* its k-th entry is the result of the k-th (suite, case) pair of the plan.
C5_ResultsInFlattenedOrder ==
    LET flat == FlatCases
    IN  /\ Len(testResults) <= Len(flat)
        /\ \A k \in 1..Len(testResults) : IsResultOf(testResults[k], flat[k])

\* C5 witness: the results of two cases of two scopes, the first one a
\* failure.
C5_Witness ==
    /\ Len(testResults) = 2
    /\ Cases = {<<1, 1>>, <<2, 1>>}
    /\ ~testResults[1].passed
    /\ testResults[2].passed

\* The cases for which runTest has been called and has not settled.
InProgress == {c \in Cases : casePc[c] \in {"clearing", "settingUp", "executing"}}

\* C6: at most one case is in progress at any time, and when clearAsync has
\* been invoked for a case every earlier case has reached passed or failed and
\* has its result in the results list.
C6_OneCaseAtATime ==
    /\ Cardinality(InProgress) <= 1
    /\ \A n \in 1..Len(calls) :
          calls[n].op = "clearAsync" =>
              \A d \in Cases :
                  Before(d, calls[n].case) =>
                      LET k == FlatIndex(d)
                      IN  /\ casePc[d] \in {"passed", "failed"}
                          /\ Len(testResults) >= k
                          /\ IsResultOf(testResults[k], d)

\* C6 witness: clearAsync is in flight for the second case after a failed
\* first case.
C6_Witness ==
    /\ TotalCases = 2
    /\ \A c \in Cases :
          casePc[c] = (IF FlatIndex(c) = 1 THEN "failed" ELSE "clearing")

\* C7: when the probe fails at the network level, or its body is anything but
\* the acknowledgement, no POST has been issued, runTestSuites has returned
\* normally and nothing was logged but the notice of the skipped sending.
C7_FailedProbeSkipsSending ==
    ProbeNotAcknowledged =>
        /\ Posts = {}
        /\ pc = "done"
        /\ console[Len(console)].level = "log"
        /\ console[Len(console)].msg[1] =
               "Skipping sending test report to cavy-cli - "

\* C7 witness: each kind of failed probe has happened: a network failure, and
\* a body that differs from the acknowledgement by a trailing line feed.
C7_Witness ==
    /\ ProbeNotAcknowledged
    /\ TotalCases = 2
    /\ \/ responses[1].op = "GET" /\ ~responses[1].ok
       \/ /\ Len(responses) = 2
          /\ responses[2].ok
          /\ responses[2].text = Ack \o <<LF>>

\* The report a POST carries, read back by the collector.
Delivered(n) == Parse(requests[n].body)

\* C8: a POST is issued only on an acknowledged probe, and when the probe has
\* been acknowledged exactly one POST has been issued, to the delivery
\* endpoint, after the single probe GET; every case has its result recorded
\* then, and the body of the POST deserializes to the results, the errorCount
\* and the duration of the report (which are those of the runner).
C8_AcknowledgedProbeSendsReportOnce ==
    /\ Posts # {} => ProbeAcknowledged
    /\ ProbeAcknowledged =>
          /\ Len(requests) = 2
          /\ requests[1] = Get(ProbeUrl)
          /\ requests[2].method = "POST"
          /\ requests[2].url = ReportUrl
          /\ Len(testResults) = TotalCases
          /\ \A c \in Cases : casePc[c] \in {"passed", "failed"}
          /\ ReportBuilt
          /\ LET delivered == Delivered(2)
             IN  /\ delivered # Undefined
                 /\ delivered.results = report.results
                 /\ delivered.results = testResults
                 /\ delivered.errorCount = report.errorCount
                 /\ delivered.errorCount = errorCount
                 /\ SameNumber(delivered.duration, report.duration)

\* C8 witness: the POST has settled; the report it carried has a failed
\* result (whose message has a quote, a line feed and a backslash), a passed
\* one and a duration with a fraction.
C8_Witness ==
    /\ pc = "done"
    /\ Posts = {2}
    /\ Len(report.results) = 2
    /\ report.errorCount = 1
    /\ report.duration = Duration(1050)

\* C9: when sendReport is false no request is ever issued, and when
\* runTestSuites has returned every case has been executed and recorded.
C9_SendReportFalseIssuesNoRequest ==
    shouldSendReport = Bool(FALSE) =>
        /\ requests = <<>>
        /\ responses = <<>>
        /\ pc \notin {"probe", "text", "send"}
        /\ pc = "done" =>
              /\ \A c \in Cases : CallCount("f", c) = 1
              /\ Len(testResults) = TotalCases
              /\ ReportBuilt

\* C9 witness: runTestSuites has returned with sendReport false, two cases
\* recorded.
C9_Witness ==
    /\ shouldSendReport = Bool(FALSE)
    /\ pc = "done"
    /\ Len(testResults) = 2
    /\ errorCount = 1

\* C10, as claimed: when sendReport is true the report is delivered with a
\* POST whatever the outcome of the probe.
C10_SendReportTrueForcesPost ==
    (shouldSendReport = Bool(TRUE) /\ pc = "done") => Posts # {}

\* C10, amended: when sendReport is true reporting is attempted as in the
\* default mode, after a deprecation warning: once the report is built the
\* warning has been logged and the probe GET is the first request, and when
\* runTestSuites has returned a POST has been issued if and only if the probe
\* was acknowledged.
C10_SendReportTrueStillProbes ==
    (shouldSendReport = Bool(TRUE) /\ ReportBuilt) =>
        /\ \E n \in 1..Len(console) : console[n] = Log("warn", DeprecationWarning)
        /\ Len(requests) >= 1
        /\ requests[1] = Get(ProbeUrl)
        /\ pc \in {"probe", "text", "send", "done"}
        /\ pc = "done" => (Posts # {} <=> ProbeAcknowledged)
        /\ pc = "done" => (Posts = {} <=> ProbeNotAcknowledged)

\* C10 witness: runTestSuites has returned with sendReport true; the probe
\* was answered with a body that is not the acknowledgement and no POST was
\* issued.
C10_Witness ==
    /\ shouldSendReport = Bool(TRUE)
    /\ pc = "done"
    /\ TotalCases = 1
    /\ Len(responses) = 2
    /\ responses[2].ok
    /\ Posts = {}

\* C11: reporting never changes test outcomes: from the moment the report is
\* built no step changes the results list or errorCount, the report keeps
\* being the report of those results, and what the reporter logs is no test
\* result.
C11_ReportingLeavesOutcomesUnchanged ==
    [][ReportBuilt =>
          /\ ReportBuilt'
          /\ testResults' = testResults
          /\ errorCount' = errorCount
          /\ report' = report
          /\ report.results = testResults
          /\ report.errorCount = errorCount
          /\ casePc' = casePc]_vars

\* C11 witness: the POST has failed after an acknowledged probe, with a failed
\* and a passed case recorded.
C11_Witness ==
    /\ pc = "done"
    /\ Len(responses) = 3
    /\ ~responses[3].ok
    /\ Len(testResults) = 2
    /\ errorCount = 1

\* startDelay is a delay other than 0.
DelayRequested == startDelay.type = "number" /\ startDelay.value # 0

\* C12: run() pauses before suite execution exactly when startDelay is a
\* non-zero delay: the first step of run() is the pause exactly then, nothing
\* is called or logged while the pause lasts, and runTestSuites is entered
\* from the pause when there is a delay and straight from the call of run()
\* when there is none.
C12_PauseExactlyOnTruthyDelay ==
    [][/\ (runPc = "idle" /\ runPc' # "idle") =>
              (runPc' = "paused" <=> DelayRequested)
       /\ runPc' = "paused" =>
              /\ pc' = "notStarted"
              /\ calls' = <<>>
              /\ console' = <<>>
              /\ \A c \in Cases : casePc'[c] = "pending"
       /\ (pc = "notStarted" /\ pc' # "notStarted") =>
              runPc = (IF DelayRequested THEN "paused" ELSE "idle")]_vars

\* C12 witness: with a delay of 500 ms the pause has elapsed and the first
\* clearAsync has been called.
C12_Witness ==
    /\ startDelay = Num(500)
    /\ runPc = "resolved"
    /\ Len(calls) = 1
    /\ calls[1].op = "clearAsync"

\* C13: no failure crosses the run boundary: as long as clearAsync and
\* reRender succeed, neither runTestSuites nor a runTest it awaits ends
\* rejected.
C13_NoFailureCrossesRunBoundary ==
    rejectedBy \notin {"clearAsync", "reRender"} =>
        /\ pc # "rejected"
        /\ \A c \in Cases : casePc[c] # "rejected"

\* C14: a started run proceeds to completion: when clearAsync and reRender
\* succeed and every awaited operation settles, a run that has been started
\* gets to the return of runTestSuites with its report built.
C14_StartedRunCompletes ==
    (runPc # "idle") ~>
        \/ pc = "done" /\ ReportBuilt
        \/ rejectedBy \in {"clearAsync", "reRender"}

\* The operations called for case c so far, in the order of the calls.
CallsOf(c) ==
    LET of == SelectSeq(calls, LAMBDA x : x.case = c)
    IN  [n \in 1..Len(of) |-> of[n].op]

\* The protocol of a case: clearAsync, the hook when the scope defines one,
\* reRender, the body.
Protocol(c) ==
    <<"clearAsync">> \o (IF testSuites[c[1]].beforeEach THEN <<"beforeEach">>
                         ELSE <<>>)
                     \o <<"reRender", "f">>

IsPrefix(a, b) == Len(a) <= Len(b) /\ SubSeq(b, 1, Len(a)) = a

\* C15: the calls made for a case are, in every state, the beginning of
\* clearAsync, hook (if defined), reRender, body: while clearAsync has not
\* resolved nothing else has been called, while the hook has not resolved
\* reRender and the body have not been called, and a case whose body was
\* called has had all of them called in that order.
C15_IsolationStepsInOrder ==
    \A c \in Cases :
        LET made == CallsOf(c)
        IN  /\ IsPrefix(made, Protocol(c))
            /\ casePc[c] = "pending" => made = <<>>
            /\ casePc[c] = "clearing" => made = <<"clearAsync">>
            /\ casePc[c] = "settingUp" => made = <<"clearAsync", "beforeEach">>
            /\ casePc[c] \in {"executing", "passed", "failed"} =>
                   made = Protocol(c)

\* C15 witness: the body of the second case has been called after a failed
\* first case, in a scope with a setup hook.
C15_Witness ==
    /\ Cases = {<<1, 1>>, <<1, 2>>}
    /\ testSuites[1].beforeEach
    /\ casePc[<<1, 1>>] = "failed"
    /\ casePc[<<1, 2>>] = "executing"

\* The host and network operations that have been started and have not
\* settled.
InFlight ==
    (IF runPc = "paused" THEN {<<"delay", <<0, 0>>>>} ELSE {})
    \cup {<<"clearAsync", c>> : c \in {d \in Cases : casePc[d] = "clearing"}}
    \cup {<<"beforeEach", c>> : c \in {d \in Cases : casePc[d] = "settingUp"}}
    \cup {<<"f", c>> : c \in {d \in Cases : casePc[d] = "executing"}}
    \cup {<<"reRender", c>> : c \in rendering}
    \cup (IF pc \in {"probe", "text", "send"} THEN {<<pc, <<0, 0>>>>} ELSE {})

\* C16: no two host or network operations are in flight at the same time; in
\* particular the body of a case is not in flight together with the
\* re-render of the case.
C16_OneOperationInFlight ==
    Cardinality(InFlight) <= 1

\* C17: a case whose body was executed ends passed or failed, and the step
\* that ends it appends exactly one result, the result of that case, with
\* passed = true for passed and false for failed, and adds one to errorCount
\* exactly for failed.
C17_ExecutedCaseEndsPassedOrFailed ==
    [][\A c \in Cases :
          (casePc[c] = "executing" /\ casePc'[c] # "executing") =>
              /\ casePc'[c] \in {"passed", "failed"}
              /\ Len(testResults') = Len(testResults) + 1
              /\ SubSeq(testResults', 1, Len(testResults)) = testResults
              /\ IsResultOf(testResults'[Len(testResults')], c)
              /\ testResults'[Len(testResults')].passed = (casePc'[c] = "passed")
              /\ errorCount' = errorCount + (IF casePc'[c] = "failed" THEN 1 ELSE 0)
      ]_vars

\* The POST has failed.
PostFailed ==
    responses # <<>> /\ responses[Len(responses)].op = "POST"
                     /\ ~responses[Len(responses)].ok

\* The last n entries of the console.
LastLogged(n) == SubSeq(console, Len(console) - n + 1, Len(console))

\* C18: when the POST fails after an acknowledged probe, send returns
\* normally, one probe and one POST have been issued and no more, and the
\* failure has been logged by exactly one branch: the notice that the server
\* is not running when the failure message contains 'Network request failed',
\* otherwise the warning with the raw message.
C18_PostFailureHandledInSend ==
    PostFailed =>
        LET message == responses[Len(responses)].text
            refused == \E k \in 1..Len(message) :
                          message[k] = "Network request failed"
            logged == LastLogged(3)
        IN  /\ ProbeAcknowledged
            /\ pc = "done"
            /\ Len(requests) = 2
            /\ Cardinality(Posts) = 1
            /\ Len(console) >= 3
            /\ logged[1].level = "group"
            /\ logged[3].level = "groupEnd"
            /\ Cardinality({n \in 1..Len(console) :
                               console[n].level = "group"}) = 1
            /\ IF refused
               THEN /\ logged[1].msg =
                          <<"Cavy test report server is not running at ">>
                          \o requests[2].url
                    /\ logged[2].level = "log"
               ELSE /\ logged[1].msg = <<"Error sending test results">>
                    /\ logged[2] = Log("warn", message)

\* C18 witness: the POST has failed with a message that contains the
\* network-refused pattern after other text.
C18_Witness ==
    /\ PostFailed
    /\ Len(responses[Len(responses)].text) = 2
    /\ Len(testResults) = 1

\* C19: run() does not wait for suite execution: its promise is resolved in
\* the step that calls runTestSuites, whatever runTestSuites has come to, so
\* in every state run() has resolved exactly if runTestSuites has been
\* called.
C19_RunResolvesAtCallOfSuites ==
    /\ runPc \in {"idle", "paused", "resolved"}
    /\ runPc = "resolved" <=> pc # "notStarted"

\* C19 witness: run() has resolved while a case is in progress, another one
\* is pending and no report is built.
C19_Witness ==
    /\ runPc = "resolved"
    /\ pc = "loop"
    /\ \E c \in Cases : casePc[c] = "clearing"
    /\ \E c \in Cases : casePc[c] = "pending"
    /\ ~ReportBuilt

\* clearAsync has failed for case c.
ClearAsyncFailed(c) ==
    casePc[c] = "rejected" /\ CallsOf(c) = <<"clearAsync">>

\* C20: a failure of clearAsync for a case aborts suite execution at that
\* case: the results list holds the results of the earlier cases and no
\* more, nothing is called for a later case, no report is built and no
\* request is issued; and from then on the results and errorCount do not
\* change.
C20_ClearAsyncFailureAborts ==
    /\ [](\A c \in Cases :
            ClearAsyncFailed(c) =>
                /\ rejectedBy = "clearAsync"
                /\ pc \in {"loop", "rejected"}
                /\ pos = c
                /\ Len(testResults) = FlatIndex(c) - 1
                /\ \A k \in 1..Len(testResults) : ~IsResultOf(testResults[k], c)
                /\ \A d \in Cases :
                      Before(c, d) => casePc[d] = "pending" /\ CallsOf(d) = <<>>
                /\ ~ReportBuilt
                /\ requests = <<>>)
    /\ [][(\E c \in Cases : ClearAsyncFailed(c)) =>
              /\ testResults' = testResults
              /\ errorCount' = errorCount
              /\ casePc' = casePc]_vars

\* C20 witness: clearAsync has failed for the second case after a failed
\* first case, and runTestSuites has ended rejected.
C20_Witness ==
    /\ pc = "rejected"
    /\ TotalCases = 2
    /\ errorCount = 1
    /\ Len(testResults) = 1
    /\ \E c \in Cases : FlatIndex(c) = 2 /\ ClearAsyncFailed(c)

====
